---------------------------- MODULE Spec2Model ----------------------------
(***************************************************************************)
(* ETF-Price-Tracker: the scheduled handler (src/src/handler.py), the LINE *)
(* push notifier (src/src/line_notifier.py) and the chart storage          *)
(* (src/src/s3_storage.py, src/src/s3_uploader.py) as one state machine.   *)
(*                                                                         *)
(* Python strings are sequences of character codes, dates are day numbers, *)
(* prices are positive integers and NaN is the one non-positive price.     *)
(***************************************************************************)
EXTENDS Integers, Sequences, FiniteSets, TLC

VARIABLES
    env,            \* os.environ: which settings are present
    pc,             \* position of lambda_handler
    base_date,      \* handler.py:26
    all_data,       \* handler.py:28
    snapshot,       \* ticker_data_for_check, handler.py:68
    message,        \* handler.py:113
    image_url,      \* handler.py:118
    chartFile,      \* what /tmp/vt_chart.png holds
    line_notifier,  \* the LineMessagingNotifier instance
    dl,             \* the running _download_with_retry call
    sm,             \* the running send_messages call
    result,         \* what lambda_handler returned or raised
    obs,            \* what the outside world saw of this invocation
    postLog,        \* every request the push API received
    nCalls,         \* calls started by a direct caller of the classes
    s3,             \* the bucket, and the last call of an S3 method
    mc              \* a Close series and what the metric functions made of it

vars == << env, pc, base_date, all_data, snapshot, message, image_url,
           chartFile, line_notifier, dl, sm, result, obs, postLog, nCalls,
           s3, mc >>

handlerVars == << env, pc, base_date, all_data, snapshot, message, image_url,
                  chartFile, dl, result >>

-----------------------------------------------------------------------------
(* Bounds of the model *)

MaxMsgs == 2

MaxCalls == 2

MaxRows == 2

MaxStale == 2

MaxRollover == 1

StartDay == 20

\* the longest Close series handed to the metric functions
MaxCloses == 6

\* the caller's deadline may fall 1..MaxDeadline seconds into a stage's waiting
MaxDeadline == 4

-----------------------------------------------------------------------------
(* Python values *)

None == [isNone |-> TRUE, s |-> << >>]

Some(s) == [isNone |-> FALSE, s |-> s]

\* Python truthiness of an optional string: None and "" are falsy
Truthy(o) == ~o.isNone /\ o.s # << >>

RECURSIVE Flatten(_)
Flatten(ss) == IF ss = << >> THEN << >> ELSE Head(ss) \o Flatten(Tail(ss))

-----------------------------------------------------------------------------
(* line_notifier.py *)

max_retries == 3

retry_delay == 10

\* requests.post raised requests.RequestException instead of answering
NetErr == 0

Statuses == {200, 201, 400, 404, 429, 500}

Outcomes == Statuses \cup {NetErr}

NoUrl == [scheme |-> "", rest |-> 0]

Url(scheme, rest) == [scheme |-> scheme, rest |-> rest]

TextMessage(text) ==
    [type |-> "text", text |-> text,
     originalContentUrl |-> NoUrl, previewImageUrl |-> NoUrl]

ImageMessage(url) ==
    [type |-> "image", text |-> << >>,
     originalContentUrl |-> url, previewImageUrl |-> url]

\* image_url.startswith("https://")
StartsWithHttps(url) == url.scheme = "https"

SchemeCode(url) ==
    CASE url.scheme = "https" -> 2
      [] url.scheme = "http" -> 1
      [] OTHER -> 0

\* str(message): the dict's keys and values in insertion order
StrMessage(m) ==
    IF m.type = "text"
    THEN << 1 >> \o m.text
    ELSE << 2, SchemeCode(m.originalContentUrl), m.originalContentUrl.rest,
            SchemeCode(m.previewImageUrl), m.previewImageUrl.rest >>

\* str(payload) of payload = {"to": user_id, "messages": messages}
StrPayload(user_id, messages) ==
    << user_id >>
      \o Flatten([i \in 1..Len(messages) |-> << 9 >> \o StrMessage(messages[i])])

RECURSIVE Digest(_, _)
Digest(seed, h) ==
    IF seed = << >> THEN h
    ELSE Digest(Tail(seed), (h * 31 + Head(seed) + 1) % 4096)

HexDigest(n) == << n \div 256, (n \div 16) % 16, n % 16 >>

build_retry_key_salted(seed) == HexDigest(Digest(seed \o << nCalls >>, 7))

\* hashlib.sha256(seed.encode("utf-8")).hexdigest()
build_retry_key(seed) == HexDigest(Digest(seed, 7))

InvalidImage(m) ==
    m.type = "image" /\ ~StartsWithHttps(m.originalContentUrl)

ValidateFirstOnly(messages) ==
    messages = << >> \/ ~InvalidImage(messages[1])

\* lines 82-88: no image message lacks an https:// originalContentUrl
Validate(messages) ==
    \A i \in 1..Len(messages) : ~InvalidImage(messages[i])

\* lines 90-91: resolved_retry_key = retry_key or build_retry_key(str(payload))
ResolveKey(retry_key, user_id, messages) ==
    IF Truthy(retry_key) THEN retry_key.s
    ELSE build_retry_key(StrPayload(user_id, messages))

ClassifyRetryAll(status) ==
    CASE status = NetErr -> "retry_net"
      [] status = 200 -> "success"
      [] OTHER -> "retry"

ClassifyAny2xx(status) ==
    CASE status = NetErr -> "retry_net"
      [] 200 <= status /\ status < 300 -> "success"
      [] 400 <= status /\ status < 500 /\ status # 429 -> "raise"
      [] OTHER -> "retry"

ClassifyMisses200(status) ==
    CASE status = NetErr -> "retry_net"
      [] 400 <= status /\ status < 500 /\ status # 429 -> "raise"
      [] OTHER -> "retry"

\* lines 101-122: what one attempt's outcome leads to
Classify(status) ==
    CASE status = NetErr -> "retry_net"
      [] status = 200 -> "success"
      [] 400 <= status /\ status < 500 /\ status # 429 -> "raise"
      [] OTHER -> "retry"

MayRetryAlways(attempt) == attempt < max_retries

MayRetryPastLimit(attempt) == attempt < max_retries + 1

\* lines 113 and 119: attempt < self.max_retries - 1
MayRetry(attempt) == attempt < max_retries - 1

IdleCall ==
    [st |-> "idle", kind |-> "none", user_id |-> 0, messages |-> << >>,
     retry_key |-> None, resolved_retry_key |-> << >>, attempt |-> 0,
     hdrs |-> << >>, outcomes |-> << >>, waits |-> 0, slept |-> 0,
     error |-> "none", errStatus |-> 0]

\* entry of send_messages(messages, retry_key) on notifier `n`
NewCall(kind, n, messages, retry_key) ==
    [IdleCall EXCEPT !.st = "validating", !.kind = kind,
                     !.user_id = n.user_id, !.messages = messages,
                     !.retry_key = retry_key]

CallOver(c) == c.st \in {"success", "failed"}

\* lines 82-93
SendValidate ==
    /\ sm.st = "validating"
    /\ sm' = IF Validate(sm.messages)
             THEN [sm EXCEPT !.st = "sending",
                             !.resolved_retry_key =
                                 ResolveKey(sm.retry_key, sm.user_id,
                                            sm.messages)]
             ELSE [sm EXCEPT !.st = "failed", !.error = "ValueError"]
    /\ UNCHANGED << handlerVars, line_notifier, obs, postLog, nCalls, s3,
                    mc >>

RetryKeyHeaderFresh(c) ==
    IF Truthy(c.retry_key) THEN c.retry_key.s
    ELSE build_retry_key(StrPayload(c.user_id, c.messages) \o << c.attempt >>)

\* lines 92 and 98: the X-Line-Retry-Key header every attempt is posted with
RetryKeyHeader(c) == c.resolved_retry_key

\* the push API's record of the auto-keyed requests: one entry per
\* (recipient, messages, key), counting the calls that posted it
Logged(log, c, key) ==
    LET old == {e \in log : e.to = c.user_id /\ e.messages = c.messages
                              /\ e.key = key}
        n   == IF old = {} THEN 0 ELSE (CHOOSE e \in old : TRUE).calls
    IN  IF Truthy(c.retry_key) THEN log
        ELSE (log \ old) \cup
               {[to |-> c.user_id, messages |-> c.messages, key |-> key,
                 calls |-> IF old = {} \/ c.attempt = 0 THEN n + 1 ELSE n]}

\* lines 95-122: one pass of the loop body up to return, raise or sleep
SendPost ==
    /\ sm.st = "sending"
    /\ \E o \in Outcomes :
         LET key == RetryKeyHeader(sm)
             c   == [sm EXCEPT !.hdrs = Append(@, key),
                               !.outcomes = Append(@, o)]
             k   == Classify(o)
         IN  /\ postLog' = Logged(postLog, sm, key)
             /\ sm' = CASE k = "success" -> [c EXCEPT !.st = "success"]
                        [] k = "raise" ->
                             [c EXCEPT !.st = "failed", !.error = "Exception",
                                       !.errStatus = o]
                        [] MayRetry(sm.attempt) -> [c EXCEPT !.st = "wait"]
                        [] k = "retry" ->
                             [c EXCEPT !.st = "failed",
                                       !.error = "LineMessagingRetryableError",
                                       !.errStatus = o]
                        [] OTHER ->
                             [c EXCEPT !.st = "failed",
                                       !.error = "RequestException",
                                       !.errStatus = o]
    /\ UNCHANGED << handlerVars, line_notifier, obs, nCalls, s3, mc >>

\* lines 114-115 and 120-121: time.sleep(self.retry_delay); continue
SendSleep ==
    /\ sm.st = "wait"
    /\ sm' = [sm EXCEPT !.st = "sending", !.attempt = @ + 1,
                        !.waits = @ + 1, !.slept = @ + retry_delay]
    /\ UNCHANGED << handlerVars, line_notifier, obs, postLog, nCalls, s3,
                    mc >>

-----------------------------------------------------------------------------
(* handler.py: the price frames yfinance returns *)

targets == << "VT", "VOO", "QQQ", "JPY=X" >>

Tickers == {targets[i] : i \in 1..Len(targets)}

\* a missing observation; every real close is positive
NaN == 0

IsNaN(x) == x = NaN

EmptyFrame == [dates |-> << >>, cols |-> {}, close |-> << >>]

BasePrice(c) ==
    CASE c = "VT" -> 100
      [] c = "VOO" -> 400
      [] c = "QQQ" -> 300
      [] OTHER -> 150

\* the close the provider quotes for column c on the frame's i-th day
Quote(c, i) == BasePrice(c) + 7 * i - i * i

NoCell == << 0, "" >>

\* n rows ending on day `last`; one cell may be NaN, one column may be absent
MkFrame(columns, n, last, nanCell, dropped) ==
    [dates |-> [i \in 1..n |-> last - n + i],
     cols  |-> columns \ dropped,
     close |-> [c \in columns |->
                  [i \in 1..n |-> IF << i, c >> = nanCell THEN NaN
                                  ELSE Quote(c, i)]]]

Defects(columns, n) ==
    {<< NoCell, {} >>}
      \cup {<< << i, c >>, {} >> : i \in 1..n, c \in columns}
      \cup {<< NoCell, {c} >> : c \in columns}

\* what yf.download may answer for the given columns when asked on day `day`
Frames(columns, day) ==
    {EmptyFrame} \cup
    {MkFrame(columns, n, last, d[1], d[2]) :
        n \in 1..MaxRows, last \in (day - 1 - MaxStale)..day,
        d \in Defects(columns, MaxRows)}

\* the single-ticker answer has one Close column; its dates play no part
ChartFrames(day) ==
    {EmptyFrame} \cup
    {MkFrame({"Close"}, n, day - 1, d[1], d[2]) :
        n \in 1..MaxRows, d \in Defects({"Close"}, MaxRows)}

Last(s) == s[Len(s)]

IsEmpty(data) == data.dates = << >> \/ data.cols = {}

-----------------------------------------------------------------------------
(* handler.py: _download_with_retry and _has_nan_values *)

max_attempts == 3

retry_interval_seconds == 2

ListOf(names) == [isstr |-> FALSE, names |-> names]

StrOf(name) == [isstr |-> TRUE, names |-> << name >>]

has_nan_values_any_row(data, tickers) ==
    \/ IsEmpty(data)
    \/ \E i \in 1..Len(tickers.names) :
         LET c == IF tickers.isstr THEN "Close" ELSE tickers.names[i]
         IN  \/ c \notin data.cols
             \/ \E r \in 1..Len(data.dates) : IsNaN(data.close[c][r])

\* lines 241-282
has_nan_values(data, tickers) ==
    \/ IsEmpty(data)
    \/ \E i \in 1..Len(tickers.names) :
         LET c == IF tickers.isstr THEN "Close" ELSE tickers.names[i]
         IN  c \notin data.cols \/ IsNaN(Last(data.close[c]))

\* how one answer of yf.download looks to its caller: no rows at all, the
\* latest Close of a requested symbol absent or NaN, or neither
AnswerKind(data, tickers) ==
    IF data.dates = << >> \/ data.cols = {} THEN "empty"
    ELSE IF \E i \in 1..Len(tickers.names) :
              LET c == IF tickers.isstr THEN "Close" ELSE tickers.names[i]
              IN  c \notin data.cols \/ data.close[c][Len(data.dates)] = NaN
    THEN "missing"
    ELSE "clean"

\* the frame of one call; `seen` lists how each yf.download call so far ended
IdleDownload ==
    [st |-> "idle", tickers |-> ListOf(<< >>), period |-> "", attempt |-> 0,
     last_data |-> EmptyFrame, requests |-> 0, waits |-> 0, slept |-> 0,
     seen |-> << >>]

\* lines 216-226: entry of _download_with_retry
NewDownload(tickers, period) ==
    [IdleDownload EXCEPT !.st = "request", !.tickers = tickers,
                         !.period = period, !.attempt = 1]

Answers(d) ==
    IF d.tickers.isstr THEN ChartFrames(base_date)
    ELSE Frames(Tickers, base_date)

\* what the invocation did so far: the chart fetches begun, the date line 296
\* read, the objects built, how the image path ended, and the send_messages
\* calls begun and ended
ZeroObs ==
    [chartFetches |-> 0, now |-> 0, notifiers |-> 0,
     charts |-> 0, storages |-> 0, uploads |-> 0, signs |-> 0,
     image |-> "none", started |-> << >>, finished |-> << >>]

AfterDownloadRetriesClean(d, f) ==
    IF d.attempt < max_attempts THEN "sleep" ELSE "returned"

AfterDownloadRaisesAtEnd(d, f) ==
    IF ~has_nan_values(f, d.tickers) THEN "returned"
    ELSE IF d.attempt < max_attempts THEN "sleep"
    ELSE "raised"

\* lines 229-238: where the loop body goes once yf.download answered f
AfterDownload(d, f) ==
    IF ~has_nan_values(f, d.tickers) THEN "returned"
    ELSE IF d.attempt < max_attempts THEN "sleep"
    ELSE "returned"

DownloadErrorRetried(d) ==
    IF d.attempt < max_attempts THEN "sleep" ELSE "raised"

\* line 228: yf.download raised; no try block surrounds the call
DownloadError(d) == "raised"

\* lines 227-238: one pass of the loop body, up to the sleep or the return
DownloadRequest ==
    /\ dl.st = "request"
    /\ \/ \E f \in Answers(dl) :
            dl' = [dl EXCEPT !.last_data = f, !.requests = @ + 1,
                             !.seen = Append(@, AnswerKind(f, dl.tickers)),
                             !.st = AfterDownload(dl, f)]
       \/ dl' = [dl EXCEPT !.requests = @ + 1,
                           !.seen = Append(@, "raised"),
                           !.st = DownloadError(dl)]
    /\ UNCHANGED << env, pc, base_date, all_data, snapshot, message, image_url,
                    chartFile, result, line_notifier, sm, obs, postLog, nCalls,
                    s3, mc >>

\* line 236: time.sleep(retry_interval_seconds), then the next attempt
DownloadSleep ==
    /\ dl.st = "sleep"
    /\ dl' = [dl EXCEPT !.st = "request", !.attempt = @ + 1,
                        !.waits = @ + 1, !.slept = @ + retry_interval_seconds]
    /\ UNCHANGED << env, pc, base_date, all_data, snapshot, message, image_url,
                    chartFile, result, line_notifier, sm, obs, postLog, nCalls,
                    s3, mc >>

-----------------------------------------------------------------------------
(* handler.py: the metrics and the message *)

\* round-half-to-even of n / d, d > 0
RoundDiv(n, d) ==
    LET q == n \div d
        r == n - q * d
    IN  IF 2 * r < d THEN q
        ELSE IF 2 * r > d THEN q + 1
        ELSE IF q % 2 = 0 THEN q ELSE q + 1

\* close_col.dropna()
dropna(s) == SelectSeq(s, LAMBDA x : ~IsNaN(x))

calculate_daily_change_over_latest(close) ==
    LET valid_data == dropna(close)
        n == Len(valid_data)
    IN  IF n < 2 THEN 0
        ELSE RoundDiv((valid_data[n] - valid_data[n - 1]) * 10000,
                      valid_data[n])

\* lines 304-325, in hundredths of a percent
calculate_daily_change(close) ==
    LET valid_data == dropna(close)
        n == Len(valid_data)
    IN  IF n < 2 THEN 0
        ELSE RoundDiv((valid_data[n] - valid_data[n - 1]) * 10000,
                      valid_data[n - 1])

calculate_weekly_change_five_back(close) ==
    LET valid_data == dropna(close)
        n == Len(valid_data)
        oldest_price == IF n > 5 THEN valid_data[n - 5] ELSE valid_data[1]
    IN  IF n < 2 THEN 0
        ELSE RoundDiv((valid_data[n] - oldest_price) * 10000, oldest_price)

\* lines 328-349, in hundredths of a percent
calculate_weekly_change(close) ==
    LET valid_data == dropna(close)
        n == Len(valid_data)
        oldest_price == IF n >= 5 THEN valid_data[n - 4] ELSE valid_data[1]
    IN  IF n < 2 THEN 0
        ELSE RoundDiv((valid_data[n] - oldest_price) * 10000, oldest_price)

\* closes of consecutive days; its last six are the series 100, 98, 99, 97,
\* 95, 93
History == << 104, 102, 100, 98, 99, 97, 95, 93 >>

\* the series with the observations at `holes` missing
Mask(close, holes) ==
    [i \in 1..Len(close) |-> IF i \in holes THEN NaN ELSE close[i]]

\* the Close columns the metric functions are applied to: the last n days
\* of History, any of them missing
CloseSeries ==
    {Mask(SubSeq(History, Len(History) - n + 1, Len(History)), holes) :
        n \in 0..MaxCloses, holes \in SUBSET (1..MaxCloses)}

NotCalled == [done |-> FALSE, raised |-> "", value |-> 0]

ReturnedValue(v) == [done |-> TRUE, raised |-> "", value |-> v]

RaisedIn(error) == [done |-> TRUE, raised |-> error, value |-> 0]

DailyChangeUnguarded(close) ==
    IF Len(dropna(close)) < 2 THEN RaisedIn("IndexError")
    ELSE ReturnedValue(calculate_daily_change(close))

\* lines 304-325: how a call of _calculate_daily_change on the series ends
DailyChange(close) == ReturnedValue(calculate_daily_change(close))

\* lines 328-349: how a call of _calculate_weekly_change on the series ends
WeeklyChange(close) == ReturnedValue(calculate_weekly_change(close))

IdleMetrics == [close |-> << >>, daily |-> NotCalled, weekly |-> NotCalled]

\* lines 68-87: one entry of ticker_data_for_check
TickerData(data, name) ==
    [name |-> name,
     daily_change |-> calculate_daily_change(data.close[name]),
     weekly_change |-> calculate_weekly_change(data.close[name]),
     current_price |-> Last(data.close[name])]

NameCode(name) ==
    CASE name = "VT" -> 1
      [] name = "VOO" -> 2
      [] name = "QQQ" -> 3
      [] OTHER -> 4

\* lines 375-400
format_notification_message(latest_date, ticker_data_list, usd_jpy_rate) ==
    << latest_date >>
      \o Flatten([i \in 1..Len(ticker_data_list) |->
                    << NameCode(ticker_data_list[i].name),
                       ticker_data_list[i].current_price,
                       ticker_data_list[i].daily_change,
                       ticker_data_list[i].weekly_change >>])
      \o << usd_jpy_rate >>

is_market_closed_stale_only(data, now) == Last(data.dates) < now - 1

\* lines 285-297, with datetime.datetime.now().date() read as `now`
is_market_closed(data, now) == Last(data.dates) # now - 1

-----------------------------------------------------------------------------
(* s3_storage.py, as far as lambda_handler reaches it *)

\* lines 118-120: the parameters upload_and_get_url accepts
upload_and_get_url_params == {"filepath", "filename_hint", "now"}

\* handler.py lines 139-144: the keywords lambda_handler passes
upload_and_get_url_kwargs == {"filepath", "filename_hint", "now", "expires_in"}

UploadOutcomes == {"ok", "ClientError", "FileNotFoundError", "Exception"}

SignOutcomes == {"ok", "ClientError", "Exception"}

\* what generate_presigned_url may hand back for the key built from `now`
SignedUrls(now) == {Url("https", now), Url("http", now)}

-----------------------------------------------------------------------------
(* s3_storage.py and s3_uploader.py: the methods *)

CHART_FILENAME == "vt_chart.png"

default_expires_in == 3600

handler_expires_in == 86400

custom_expires_in == 7200

BucketName == "test-bucket"

\* the datetime values the tests hand in as `now`
Nows ==
    {[year |-> 2026, month |-> 1, day |-> 12, hour |-> 10],
     [year |-> 2026, month |-> 1, day |-> 12, hour |-> 0],
     [year |-> 2025, month |-> 12, day |-> 31, hour |-> 0],
     [year |-> 2026, month |-> 1, day |-> 1, hour |-> 0]}

Hints == {CHART_FILENAME, "chart.png"}

Files == {"/tmp/vt_chart.png", "/tmp/missing.png"}

FileExists(filepath) == filepath = "/tmp/vt_chart.png"

RECURSIVE Pow10(_)
Pow10(k) == IF k = 0 THEN 1 ELSE 10 * Pow10(k - 1)

\* strftime("%Y"), ("%m"), ("%d"): the decimal digits, zero-padded to width
Digits(n, width) == [i \in 1..width |-> (n \div Pow10(width - i)) % 10]

NoKey ==
    [prefix |-> "", year |-> << >>, month |-> << >>, day |-> << >>,
     filename |-> ""]

build_s3_key_unpadded(filename, now) ==
    [prefix |-> "charts", year |-> Digits(now.year, 4),
     month |-> Digits(now.month, IF now.month < 10 THEN 1 ELSE 2),
     day |-> Digits(now.day, IF now.day < 10 THEN 1 ELSE 2),
     filename |-> filename]

\* s3_storage.py lines 41-57: f"charts/{year}/{month}/{day}/{filename}"
build_s3_key(filename, now) ==
    [prefix |-> "charts", year |-> Digits(now.year, 4),
     month |-> Digits(now.month, 2), day |-> Digits(now.day, 2),
     filename |-> filename]

Keys == {build_s3_key(h, n) : h \in Hints, n \in Nows}

NoS3Url ==
    [signed |-> FALSE, method |-> "", bucket |-> "", key |-> NoKey,
     expires_in |-> 0]

\* s3_storage.py lines 103-107: what generate_presigned_url signs
PresignedUrl(key, expires_in) ==
    [signed |-> TRUE, method |-> "get_object", bucket |-> BucketName,
     key |-> key, expires_in |-> expires_in]

\* s3_uploader.py line 50: f"https://{bucket}.s3.amazonaws.com/{s3_key}"
ObjectUrl(key) ==
    [signed |-> FALSE, method |-> "", bucket |-> BucketName, key |-> key,
     expires_in |-> 0]

\* one call of the boto3 client, with how it ended
BotoCall(api, key, acl, expires_in, outcome) ==
    [api |-> api, key |-> key, acl |-> acl, expires_in |-> expires_in,
     outcome |-> outcome]

\* what a method did and how it ended; error "" is a normal return
Ended(boto, error, url) == [boto |-> boto, error |-> error, url |-> url]

\* what s3_client.upload_file may do with the file
UploadOutcomesOf(filepath) ==
    IF FileExists(filepath) THEN UploadOutcomes \ {"FileNotFoundError"}
    ELSE {"FileNotFoundError"}

\* s3_storage.py lines 59-86: S3Storage.upload_file
upload_file(filepath, key, up) ==
    Ended(<< BotoCall("upload_file", key, "", 0, up) >>,
          IF up = "ok" THEN "" ELSE "S3StorageError", NoS3Url)

\* s3_storage.py lines 88-116
create_presigned_url(key, expires_in, sg) ==
    Ended(<< BotoCall("generate_presigned_url", key, "", expires_in, sg) >>,
          IF sg = "ok" THEN "" ELSE "S3StorageError",
          IF sg = "ok" THEN PresignedUrl(key, expires_in) ELSE NoS3Url)

upload_and_get_url_signs_anyway(filepath, filename_hint, now, up, sg) ==
    LET s3_key == build_s3_key(filename_hint, now)
        u == upload_file(filepath, s3_key, up)
        c == create_presigned_url(s3_key, default_expires_in, sg)
    IN  Ended(u.boto \o c.boto, c.error, c.url)

\* s3_storage.py lines 118-142
upload_and_get_url(filepath, filename_hint, now, up, sg) ==
    LET s3_key == build_s3_key(filename_hint, now)
        u == upload_file(filepath, s3_key, up)
        c == create_presigned_url(s3_key, default_expires_in, sg)
    IN  IF u.error # "" THEN u
        ELSE Ended(u.boto \o c.boto, c.error, c.url)

\* s3_uploader.py lines 29-57: S3Uploader.upload_file
S3Uploader_upload_file(file_path, s3_key, up) ==
    IF ~FileExists(file_path)
    THEN Ended(<< >>, "FileNotFoundError", NoS3Url)
    ELSE Ended(<< BotoCall("upload_file", s3_key, "public-read", 0, up) >>,
               IF up = "ok" THEN "" ELSE up,
               IF up = "ok" THEN ObjectUrl(s3_key) ELSE NoS3Url)

\* an optional keyword argument
NoArg == [given |-> FALSE, n |-> 0]

Arg(n) == [given |-> TRUE, n |-> n]

ExpiryArgs == {NoArg, Arg(handler_expires_in), Arg(custom_expires_in)}

NoNow == [year |-> 0, month |-> 0, day |-> 0, hour |-> 0]

NoS3Call ==
    [op |-> "none", filepath |-> "", filename_hint |-> "", now |-> NoNow,
     key |-> NoKey, expires_in |-> NoArg,
     boto |-> << >>, error |-> "", url |-> NoS3Url]

NoS3 == [objects |-> {}, call |-> NoS3Call]

\* the bucket after the boto3 calls of one method
Stored(objects, boto) ==
    objects \cup
    {[key |-> boto[i].key, acl |-> boto[i].acl] :
        i \in {j \in 1..Len(boto) : /\ boto[j].api = "upload_file"
                                    /\ boto[j].outcome = "ok"}}

S3After(call, r) ==
    [objects |-> Stored(s3.objects, r.boto),
     call |-> [call EXCEPT !.boto = r.boto, !.error = r.error, !.url = r.url]]

-----------------------------------------------------------------------------
(* handler.py: lambda_handler *)

NoResult ==
    [kind |-> "none", statusCode |-> 0, notification_sent |-> FALSE,
     ticker_count |-> 0, message |-> "", error |-> ""]

Returned(sent, count, text) ==
    [kind |-> "return", statusCode |-> 200, notification_sent |-> sent,
     ticker_count |-> count, message |-> text, error |-> ""]

Raised(error) == [NoResult EXCEPT !.kind = "raise", !.error = error]

NoNotifier == [user_id |-> 0]

\* the recipient LINE_USER_ID names
EnvUserId == 1

Init ==
    /\ env \in [token : BOOLEAN, user : BOOLEAN, bucket : BOOLEAN]
    /\ pc = "start"
    /\ base_date = StartDay
    /\ all_data = EmptyFrame
    /\ snapshot = << >>
    /\ message = << >>
    /\ image_url = NoUrl
    /\ chartFile \in {"none", "stale"}
    /\ line_notifier = NoNotifier
    /\ dl = IdleDownload
    /\ sm = IdleCall
    /\ result = NoResult
    /\ obs = ZeroObs
    /\ postLog = {}
    /\ nCalls = 0
    /\ s3 = NoS3
    /\ mc = IdleMetrics

\* lines 24-34
HandlerStart ==
    /\ pc = "start"
    /\ dl' = NewDownload(ListOf(targets), "1mo")
    /\ pc' = "fetch"
    /\ UNCHANGED << env, base_date, all_data, snapshot, message, image_url,
                    chartFile, result, line_notifier, sm, obs, postLog, nCalls,
                    s3, mc >>

\* yf.download raised inside line 28: nothing catches it, and the frame of
\* the call is kept as it was when the exception left it
HandlerFetchRaised ==
    /\ pc = "fetch"
    /\ dl.st = "raised"
    /\ pc' = "done"
    /\ result' = Raised("DownloadError")
    /\ UNCHANGED << env, base_date, all_data, snapshot, message, image_url,
                    chartFile, line_notifier, dl, sm, obs, postLog, nCalls,
                    s3, mc >>

\* lines 38 and 295-297: all_data.index[-1] of an empty frame raises
MarketCheck(data, now) ==
    IF IsEmpty(data) THEN "IndexError"
    ELSE IF is_market_closed(data, now) THEN "closed"
    ELSE "open"

\* lines 28-46
HandlerMarketCheck ==
    /\ pc = "fetch"
    /\ dl.st = "returned"
    /\ all_data' = dl.last_data
    /\ dl' = IdleDownload
    /\ \E late \in 0..MaxRollover :
         LET verdict == MarketCheck(dl.last_data, base_date + late)
         IN  /\ obs' = [obs EXCEPT !.now = base_date + late]
             /\ CASE verdict = "IndexError" ->
                    pc' = "done" /\ result' = Raised("IndexError")
               [] verdict = "closed" ->
                    /\ pc' = "done"
                    /\ result' = Returned(FALSE, 0, "Market is closed today")
               [] OTHER -> pc' = "compute" /\ result' = result
    /\ UNCHANGED << env, base_date, snapshot, message, image_url, chartFile,
                    line_notifier, sm, postLog, nCalls, s3, mc >>

\* lines 49-102
HandlerCompute ==
    /\ pc = "compute"
    /\ IF {"VT", "VOO", "QQQ"} \subseteq all_data.cols
       THEN /\ snapshot' = [i \in 1..3 |-> TickerData(all_data, targets[i])]
            /\ pc' = "notifier"
            /\ result' = result
       ELSE /\ snapshot' = snapshot
            /\ pc' = "done"
            /\ result' = Raised("KeyError")
    /\ UNCHANGED << env, base_date, all_data, message, image_url, chartFile,
                    line_notifier, dl, sm, obs, postLog, nCalls, s3, mc >>

\* lines 105-121: the notifier, the message, and the chart's fetch begins
HandlerBuildNotifier ==
    /\ pc = "notifier"
    /\ IF ~env.token \/ ~env.user
       THEN /\ pc' = "done"
            /\ result' = Raised("ValueError")
            /\ UNCHANGED << line_notifier, message, dl, obs >>
       ELSE /\ line_notifier' = [user_id |-> EnvUserId]
            /\ obs' = [obs EXCEPT !.notifiers = @ + 1,
                                  !.chartFetches =
                                      IF "JPY=X" \in all_data.cols
                                      THEN @ + 1 ELSE @]
            /\ IF "JPY=X" \in all_data.cols
               THEN /\ message' = format_notification_message(
                                     base_date, snapshot,
                                     Last(all_data.close["JPY=X"]))
                    /\ dl' = NewDownload(StrOf("VT"), "6mo")
                    /\ pc' = "chart_fetch"
                    /\ result' = result
               ELSE /\ pc' = "done"
                    /\ result' = Raised("KeyError")
                    /\ UNCHANGED << message, dl >>
    /\ image_url' = NoUrl
    /\ UNCHANGED << env, base_date, all_data, snapshot, chartFile, sm,
                    postLog, nCalls, s3, mc >>

Exceptions ==
    {"S3StorageError", "ValueError", "TypeError", "KeyError",
     "DownloadError", "OSError"}

ImagePathGoesOn(how, exc) ==
    /\ obs' = [obs EXCEPT !.image = how]
    /\ result' = result
    /\ pc' = IF how \in {"fetch_failed", "chart_failed"} THEN "publish"
             ELSE "send_text"

ImagePathCatchesStorageOnly(exc) == exc \in {"S3StorageError", "ValueError"}

\* lines 148-156: except S3StorageError, except ValueError, except Exception
ImagePathCatches(exc) == exc \in Exceptions

\* lines 120-158: the try block is left, by its end or by an exception
ImagePathEnds(how, exc) ==
    /\ obs' = [obs EXCEPT !.image = how]
    /\ IF how = "published" \/ ImagePathCatches(exc)
       THEN pc' = "send_text" /\ result' = result
       ELSE pc' = "done" /\ result' = Raised(exc)

\* line 121 raised
HandlerChartFetchRaised ==
    /\ pc = "chart_fetch"
    /\ dl.st = "raised"
    /\ dl' = IdleDownload
    /\ ImagePathEnds("fetch_failed", "DownloadError")
    /\ UNCHANGED << env, base_date, all_data, snapshot, message, image_url,
                    chartFile, line_notifier, sm, postLog, nCalls, s3, mc >>

\* lines 122-134 and 403-439: create_chart(vt_df_6mo) and os.path.getsize
HandlerCreateChart ==
    /\ pc = "chart_fetch"
    /\ dl.st = "returned"
    /\ dl' = IdleDownload
    /\ IF "Close" \notin dl.last_data.cols
       THEN ImagePathEnds("chart_failed", "KeyError") /\ chartFile' = chartFile
       ELSE \E saved \in BOOLEAN :
              IF saved
              THEN /\ chartFile' = "fresh"
                   /\ obs' = [obs EXCEPT !.charts = @ + 1]
                   /\ pc' = "publish"
                   /\ result' = result
              ELSE ImagePathEnds("chart_failed", "OSError")
                     /\ chartFile' = chartFile
    /\ UNCHANGED << env, base_date, all_data, snapshot, message, image_url,
                    line_notifier, sm, postLog, nCalls, s3, mc >>

\* lines 136-156: S3Storage(), then upload_and_get_url(...)
HandlerPublish ==
    /\ pc = "publish"
    /\ IF ~env.bucket
       THEN ImagePathEnds("storage_failed", "ValueError")
              /\ image_url' = image_url
       ELSE IF ~(upload_and_get_url_kwargs \subseteq upload_and_get_url_params)
       THEN /\ ImagePathEnds("call_failed", "TypeError")
            /\ image_url' = image_url
       ELSE \E late \in 0..MaxRollover, up \in UploadOutcomes,
               sg \in SignOutcomes, url \in SignedUrls(base_date) :
              IF up = "ok" /\ sg = "ok"
              THEN /\ image_url' = [url EXCEPT !.rest = base_date + late]
                   /\ ImagePathEnds("published", "")
              ELSE /\ image_url' = image_url
                   /\ ImagePathEnds(IF up = "ok" THEN "sign_failed"
                                    ELSE "upload_failed", "S3StorageError")
    /\ UNCHANGED << env, base_date, all_data, snapshot, message, chartFile,
                    line_notifier, dl, sm, postLog, nCalls, s3, mc >>

\* line 158: the call begins
HandlerSendText ==
    /\ pc = "send_text"
    /\ sm' = NewCall("text", line_notifier, << TextMessage(message) >>, None)
    /\ obs' = [obs EXCEPT !.started = Append(@, sm'.messages)]
    /\ pc' = "text_call"
    /\ UNCHANGED << env, base_date, all_data, snapshot, message, image_url,
                    chartFile, result, line_notifier, dl, postLog, nCalls,
                    s3, mc >>

\* line 158 stands in no try block: a failed text call leaves lambda_handler
AfterTextRaises(c) == c.st = "failed"

\* lines 158-188: a send_messages call of lambda_handler is over
HandlerNotified ==
    /\ pc \in {"text_call", "image_call"}
    /\ CallOver(sm)
    /\ sm' = IF pc = "text_call" /\ ~AfterTextRaises(sm) /\ image_url # NoUrl
             THEN NewCall("image", line_notifier,
                          << ImageMessage(image_url) >>, None)
             ELSE sm
    /\ obs' = [obs EXCEPT
                 !.finished = Append(@, [kind |-> sm.kind, st |-> sm.st]),
                 !.started = IF pc = "text_call" /\ ~AfterTextRaises(sm)
                                /\ image_url # NoUrl
                             THEN Append(@, sm'.messages) ELSE @]
    /\ IF pc = "text_call" /\ AfterTextRaises(sm)
       THEN pc' = "done" /\ result' = Raised(sm.error)
       ELSE IF pc = "text_call" /\ image_url # NoUrl
       THEN pc' = "image_call" /\ result' = result
       ELSE /\ pc' = "done"
            /\ result' = Returned(TRUE, Len(snapshot),
                                  "Stock monitoring completed successfully")
    /\ UNCHANGED << env, base_date, all_data, snapshot, message, image_url,
                    chartFile, line_notifier, dl, postLog, nCalls, s3, mc >>

Next ==
    \/ HandlerStart
    \/ DownloadRequest
    \/ DownloadSleep
    \/ HandlerFetchRaised
    \/ HandlerMarketCheck
    \/ HandlerCompute
    \/ HandlerBuildNotifier
    \/ HandlerChartFetchRaised
    \/ HandlerCreateChart
    \/ HandlerPublish
    \/ HandlerSendText
    \/ SendValidate
    \/ SendPost
    \/ SendSleep
    \/ HandlerNotified

Spec == Init /\ [][Next]_vars

-----------------------------------------------------------------------------
(* A direct caller of LineMessagingNotifier, as in tests/test_line_notifier.py *)

UserIds == {1, 2}

Messages ==
    {TextMessage(<< 5 >>), ImageMessage(Url("https", 1)),
     ImageMessage(Url("http", 1))}

MessageLists == UNION {[1..n -> Messages] : n \in 0..MaxMsgs}

RetryKeys == {None, Some(<< >>), Some(<< 3, 3 >>)}

IdleHandler ==
    /\ env = [token |-> TRUE, user |-> TRUE, bucket |-> TRUE]
    /\ pc = "unused"
    /\ base_date = StartDay
    /\ all_data = EmptyFrame
    /\ snapshot = << >>
    /\ message = << >>
    /\ image_url = NoUrl
    /\ chartFile = "none"
    /\ dl = IdleDownload
    /\ result = NoResult
    /\ obs = ZeroObs

InitSend ==
    /\ IdleHandler
    /\ \E u \in UserIds : line_notifier = [user_id |-> u]
    /\ sm = IdleCall
    /\ postLog = {}
    /\ nCalls = 0
    /\ s3 = NoS3
    /\ mc = IdleMetrics

\* the call returns or raises to its caller
CallReturn ==
    /\ pc = "unused"
    /\ CallOver(sm)
    /\ sm' = IdleCall
    /\ UNCHANGED << handlerVars, line_notifier, obs, postLog, nCalls, s3,
                    mc >>

\* notifier.send_messages(messages, retry_key)
CallSendMessages ==
    /\ pc = "unused"
    /\ sm.st = "idle"
    /\ nCalls < MaxCalls
    /\ \E ms \in MessageLists, rk \in RetryKeys :
         sm' = NewCall("direct", line_notifier, ms, rk)
    /\ nCalls' = nCalls + 1
    /\ UNCHANGED << handlerVars, line_notifier, obs, postLog, s3, mc >>

NextSend ==
    CallSendMessages \/ SendValidate \/ SendPost \/ SendSleep \/ CallReturn

SpecSend == InitSend /\ [][NextSend]_vars

\* the caller's first call only
FirstCall == nCalls = 0 /\ CallSendMessages

NextSendOnce ==
    FirstCall \/ SendValidate \/ SendPost \/ SendSleep \/ CallReturn

\* a call that was begun runs on: the validation ends, requests.post returns
\* or raises within its timeout, and time.sleep returns
SpecSendOnce ==
    /\ InitSend
    /\ [][NextSendOnce]_vars
    /\ WF_vars(SendValidate)
    /\ WF_vars(SendPost)
    /\ WF_vars(SendSleep)

-----------------------------------------------------------------------------
(* A direct caller of S3Storage and S3Uploader, as in tests/test_s3_storage.py *)
(* and tests/test_s3_uploader.py                                             *)

InitS3 ==
    /\ IdleHandler
    /\ line_notifier = NoNotifier
    /\ sm = IdleCall
    /\ postLog = {}
    /\ nCalls = 0
    /\ s3 = NoS3
    /\ mc = IdleMetrics

\* storage.upload_and_get_url(filepath=, filename_hint=, now=[, expires_in=]):
\* a keyword the signature lacks raises TypeError before the body runs
CallUploadAndGetUrl ==
    /\ pc = "unused"
    /\ nCalls < MaxCalls
    /\ \E f \in Files, hint \in Hints, now \in Nows, e \in ExpiryArgs :
         \E up \in UploadOutcomesOf(f), sg \in SignOutcomes :
           LET kwargs == {"filepath", "filename_hint", "now"}
                           \cup IF e.given THEN {"expires_in"} ELSE {}
               call == [NoS3Call EXCEPT !.op = "upload_and_get_url",
                                        !.filepath = f,
                                        !.filename_hint = hint,
                                        !.now = now, !.expires_in = e]
           IN  s3' = S3After(call,
                             IF kwargs \subseteq upload_and_get_url_params
                             THEN upload_and_get_url(f, hint, now, up, sg)
                             ELSE Ended(<< >>, "TypeError", NoS3Url))
    /\ nCalls' = nCalls + 1
    /\ UNCHANGED << handlerVars, line_notifier, sm, obs, postLog, mc >>

\* storage.create_presigned_url(key[, expires_in=])
CallCreatePresignedUrl ==
    /\ pc = "unused"
    /\ nCalls < MaxCalls
    /\ \E key \in Keys, e \in ExpiryArgs, sg \in SignOutcomes :
         LET call == [NoS3Call EXCEPT !.op = "create_presigned_url",
                                      !.key = key, !.expires_in = e]
         IN  s3' = S3After(call,
                           create_presigned_url(
                             key, IF e.given THEN e.n ELSE default_expires_in,
                             sg))
    /\ nCalls' = nCalls + 1
    /\ UNCHANGED << handlerVars, line_notifier, sm, obs, postLog, mc >>

\* uploader.upload_file(file_path, s3_key)
CallUploaderUploadFile ==
    /\ pc = "unused"
    /\ nCalls < MaxCalls
    /\ \E f \in Files, key \in Keys, up \in UploadOutcomes :
         LET call == [NoS3Call EXCEPT !.op = "S3Uploader.upload_file",
                                      !.filepath = f, !.key = key]
         IN  s3' = S3After(call, S3Uploader_upload_file(f, key, up))
    /\ nCalls' = nCalls + 1
    /\ UNCHANGED << handlerVars, line_notifier, sm, obs, postLog, mc >>

NextS3 ==
    CallUploadAndGetUrl \/ CallCreatePresignedUrl \/ CallUploaderUploadFile

SpecS3 == InitS3 /\ [][NextS3]_vars

-----------------------------------------------------------------------------
(* A direct caller of _calculate_daily_change and _calculate_weekly_change *)

InitMetrics ==
    /\ IdleHandler
    /\ line_notifier = NoNotifier
    /\ sm = IdleCall
    /\ postLog = {}
    /\ nCalls = 0
    /\ s3 = NoS3
    /\ \E c \in CloseSeries : mc = [IdleMetrics EXCEPT !.close = c]

\* _calculate_daily_change(stock_data)
CallDailyChange ==
    /\ pc = "unused"
    /\ ~mc.daily.done
    /\ mc' = [mc EXCEPT !.daily = DailyChange(mc.close)]
    /\ UNCHANGED << handlerVars, line_notifier, sm, obs, postLog, nCalls, s3 >>

\* _calculate_weekly_change(stock_data)
CallWeeklyChange ==
    /\ pc = "unused"
    /\ ~mc.weekly.done
    /\ mc' = [mc EXCEPT !.weekly = WeeklyChange(mc.close)]
    /\ UNCHANGED << handlerVars, line_notifier, sm, obs, postLog, nCalls, s3 >>

NextMetrics == CallDailyChange \/ CallWeeklyChange

SpecMetrics == InitMetrics /\ [][NextMetrics]_vars

-----------------------------------------------------------------------------
(* Properties of lambda_handler: invariants of Spec *)

IsTextCall(messages) == Len(messages) = 1 /\ messages[1].type = "text"

IsImageCall(messages) == Len(messages) = 1 /\ messages[1].type = "image"

TextCallsStarted ==
    Cardinality({i \in 1..Len(obs.started) : IsTextCall(obs.started[i])})

ImagePathFailed ==
    \/ obs.image \in {"fetch_failed", "chart_failed", "storage_failed",
                      "call_failed", "upload_failed", "sign_failed"}
    \/ \E i \in 1..Len(obs.finished) :
         obs.finished[i].kind = "image" /\ obs.finished[i].st = "failed"

SuccessReturn ==
    Returned(TRUE, 3, "Stock monitoring completed successfully")

\* C1: once the image path has failed (chart fetch, rendering, S3Storage(),
\* upload, signing or the image call), the text call is never begun twice,
\* and when lambda_handler is over exactly one send_messages call carrying
\* the text message was made; if that call succeeded the handler returned
\* statusCode 200 with notification_sent = true.
C1_TextSentOnceDespiteImageFailure ==
    ImagePathFailed =>
      /\ TextCallsStarted <= 1
      /\ pc = "done" =>
           /\ TextCallsStarted = 1
           /\ obs.started[1] = << TextMessage(message) >>
           /\ obs.finished # << >>
           /\ obs.finished[1].kind = "text"
           /\ obs.finished[1].st = "success" => result = SuccessReturn

C1_Witness ==
    /\ pc = "done"
    /\ obs.image = "call_failed"
    /\ obs.started = << << TextMessage(message) >> >>
    /\ obs.finished[1].st = "success"
    /\ result.statusCode = 200
    /\ result.notification_sent

\* C8: when lambda_handler is over and a stage after the acquisition ran
\* (the text delivery was begun), whatever went wrong there, the handler
\* returned the structured result with statusCode 200 and did not raise.
C8_DownstreamErrorsAbsorbed ==
    (pc = "done" /\ obs.started # << >>) =>
      (result.kind = "return" /\ result.statusCode = 200)

\* C9: an image call is begun only after a text call was begun and ended.
\* It holds of every reachable state, but no reachable state has an image
\* call (C9_NoImageCall holds too), so the case of C9 never happens.
C9_TextBeforeImage ==
    \A i \in 1..Len(obs.started) :
      IsImageCall(obs.started[i]) =>
        /\ i = 2
        /\ IsTextCall(obs.started[1])
        /\ obs.finished # << >>
        /\ obs.finished[1] = [kind |-> "text", st |-> "success"]

C9_NoImageCall ==
    /\ image_url = NoUrl
    /\ pc # "image_call"
    /\ \A i \in 1..Len(obs.started) : ~IsImageCall(obs.started[i])

ClosedReturn ==
    result.kind = "return" /\ result.message = "Market is closed today"

\* line 38 ran on a frame that has a latest date
MarketChecked == pc \notin {"start", "fetch"} /\ ~IsEmpty(all_data)

\* C10: once the market check ran, the handler returned the market-closed
\* result exactly when the latest date of the fetched series differs from
\* the date read at line 296 minus one day; that result is
\* notification_sent = false, ticker_count = 0, and with it no chart fetch
\* was begun, no notifier, chart or storage was built, nothing was uploaded,
\* no send_messages call was made and no request reached the push API.
C10_MarketClosedDecision ==
    /\ MarketChecked =>
         (ClosedReturn <=> Last(all_data.dates) # obs.now - 1)
    /\ ClosedReturn =>
         /\ pc = "done"
         /\ result = Returned(FALSE, 0, "Market is closed today")
         /\ dl.st = "idle"
         /\ obs.chartFetches = 0
         /\ obs.notifiers = 0
         /\ line_notifier = NoNotifier
         /\ obs.charts = 0
         /\ obs.storages = 0
         /\ obs.uploads = 0
         /\ obs.image = "none"
         /\ obs.started = << >>
         /\ sm = IdleCall
         /\ postLog = {}

C10_Witness ==
    /\ ClosedReturn
    /\ Last(all_data.dates) = obs.now - 3
    /\ result.notification_sent = FALSE
    /\ result.ticker_count = 0

\* the 6-month fetch, create_chart, S3Storage() and S3 itself did not fail
NothingFailedBeforeUrl ==
    obs.image \notin {"fetch_failed", "chart_failed", "storage_failed",
                      "upload_failed", "sign_failed"}

ImageCallsStarted ==
    {i \in 1..Len(obs.started) : IsImageCall(obs.started[i])}

\* C27: when an open-market invocation is over, its text call succeeded,
\* and neither the chart fetch, the rendering, the upload nor the signing
\* failed, lambda_handler holds a signed URL and made one image call whose
\* originalContentUrl and previewImageUrl are that URL.
C27_ImageSentAfterPublish ==
    ( /\ pc = "done"
      /\ obs.finished # << >>
      /\ obs.finished[1] = [kind |-> "text", st |-> "success"]
      /\ chartFile = "fresh"
      /\ NothingFailedBeforeUrl )
      => /\ image_url # NoUrl
         /\ \E i \in ImageCallsStarted :
              obs.started[i] = << ImageMessage(image_url) >>

\* the most recent valid close of a ticker, NaN if it has none
LatestValid(close) ==
    IF \A i \in 1..Len(close) : close[i] = NaN THEN NaN
    ELSE close[CHOOSE i \in 1..Len(close) :
                 /\ close[i] # NaN
                 /\ \A j \in (i + 1)..Len(close) : close[j] = NaN]

\* C29: the current price of every ticker in the snapshot, and so in the
\* message built from it, is the ticker's most recent valid close, the one
\* the two change functions take as the latest price.
C29_CurrentPriceIsLatestValid ==
    /\ \A i \in 1..Len(snapshot) :
         snapshot[i].current_price =
           LatestValid(all_data.close[snapshot[i].name])
    /\ message # << >>
         => \A i \in 1..Len(snapshot) :
              message[4 * i - 1] =
                LatestValid(all_data.close[snapshot[i].name])

\* C30: lambda_handler reaches the upload call only with a chart file that
\* create_chart wrote in this invocation; when the chart fetch or the
\* rendering failed, the file an earlier invocation left is not touched,
\* the upload call is not reached, no URL is held and no image call made.
C30_NoCrossRunChart ==
    /\ pc = "publish" => (chartFile = "fresh" /\ obs.charts = 1)
    /\ (obs.uploads > 0 \/ image_url # NoUrl \/ ImageCallsStarted # {})
         => (chartFile = "fresh" /\ obs.charts = 1)
    /\ obs.image \in {"fetch_failed", "chart_failed"}
         => /\ chartFile # "fresh"
            /\ obs.charts = 0
            /\ pc # "publish"
            /\ obs.uploads = 0
            /\ image_url = NoUrl
            /\ ImageCallsStarted = {}

C30_Witness ==
    /\ pc = "done"
    /\ chartFile = "stale"
    /\ obs.image = "chart_failed"
    /\ result.notification_sent
    /\ Len(obs.started) = 1

-----------------------------------------------------------------------------
(* Properties of the acquisition stage: invariants and step properties of Spec *)

\* the call of line 28, as opposed to the chart's call of line 121
Acquisition == dl.period = "1mo"

EverySeen(kind) ==
    dl.seen # << >> /\ \A i \in 1..Len(dl.seen) : dl.seen[i] = kind

\* C11: when every yf.download call of the acquisition answered with an
\* empty frame and _download_with_retry has returned, the next step of
\* lambda_handler ends it with the market-closed result
\* (notification_sent = false, ticker_count = 0) and raises nothing.
C11_EmptyResultIsMarketClosed ==
    [][(pc = "fetch" /\ Acquisition /\ dl.st = "returned"
          /\ EverySeen("empty"))
         => (pc' = "done"
               /\ result' = Returned(FALSE, 0, "Market is closed today"))]_vars

\* the first n answers of the call in progress all looked like `kind`
FirstSeen(n, kind) ==
    Len(dl.seen) >= n /\ \A i \in 1..n : dl.seen[i] = kind

\* C12: when the first N answers of a _download_with_retry call (N below
\* max_attempts) had a requested symbol's latest Close missing and answer
\* N+1 had not, the call has returned answer N+1 after exactly N+1 requests
\* and exactly N waits of retry_interval_seconds, and no request follows.
C12_CleanAnswerAfterRetries ==
    \A n \in 0..(max_attempts - 1) :
      (FirstSeen(n, "missing") /\ Len(dl.seen) > n /\ dl.seen[n + 1] = "clean")
        => /\ dl.st = "returned"
           /\ Len(dl.seen) = n + 1
           /\ dl.requests = n + 1
           /\ dl.waits = n
           /\ dl.slept = n * retry_interval_seconds
           /\ AnswerKind(dl.last_data, dl.tickers) = "clean"

C12_Witness ==
    /\ Acquisition
    /\ dl.st = "returned"
    /\ dl.seen = << "missing", "missing", "clean" >>
    /\ dl.requests = 3
    /\ dl.waits = 2

\* C13: when all max_attempts answers of a _download_with_retry call had a
\* requested symbol's latest Close missing, the call has returned the last
\* answer, missing value included, and raised nothing, after exactly
\* max_attempts requests and max_attempts - 1 waits.
C13_LastAnswerAfterExhaustion ==
    FirstSeen(max_attempts, "missing")
      => /\ dl.st = "returned"
         /\ Len(dl.seen) = max_attempts
         /\ dl.requests = max_attempts
         /\ dl.waits = max_attempts - 1
         /\ AnswerKind(dl.last_data, dl.tickers) = "missing"

C13_Witness ==
    /\ Acquisition
    /\ dl.st = "returned"
    /\ dl.seen = << "missing", "missing", "missing" >>
    /\ IsNaN(Last(dl.last_data.close["VT"]))
    /\ dl.waits = 2

\* C14: after each answer of yf.download, _download_with_retry goes on to
\* a retry exactly when attempts remain and the answer is empty or lacks a
\* requested symbol's latest Close; otherwise it returns the answer. NaNs
\* in older rows and the date of the latest row play no part.
C14_RetryOnlyOnLatestClose ==
    dl.st \in {"sleep", "returned"}
      => (dl.st = "sleep"
            <=> /\ AnswerKind(dl.last_data, dl.tickers) # "clean"
                /\ dl.attempt < max_attempts)

\* accepted at once: a NaN in an older row under a stale latest date
C14_Witness ==
    /\ Acquisition
    /\ dl.st = "returned"
    /\ dl.requests = 1
    /\ dl.waits = 0
    /\ Len(dl.last_data.dates) = 2
    /\ IsNaN(dl.last_data.close["VOO"][1])
    /\ Last(dl.last_data.dates) = base_date - 3

\* C15: an exception of yf.download ends the _download_with_retry call at
\* once (no wait, no further request), and when it happened in the
\* acquisition call, lambda_handler has done nothing else and ends by
\* raising that exception: no notifier, chart or storage was built, nothing
\* was uploaded and no send_messages call was made.
C15_FetchFailurePropagates ==
    /\ \A i \in 1..Len(dl.seen) :
         dl.seen[i] = "raised" => (i = Len(dl.seen) /\ dl.st = "raised")
    /\ (Acquisition /\ dl.st = "raised")
         => /\ pc \in {"fetch", "done"}
            /\ pc = "done" => result = Raised("DownloadError")
            /\ obs = ZeroObs
            /\ line_notifier = NoNotifier
            /\ chartFile # "fresh"
            /\ image_url = NoUrl
            /\ sm = IdleCall
            /\ postLog = {}

C15_Witness ==
    /\ pc = "done"
    /\ Acquisition
    /\ dl.seen = << "missing", "raised" >>
    /\ dl.waits = 1
    /\ result = Raised("DownloadError")

\* C16: in an invocation that lacks LINE_CHANNEL_ACCESS_TOKEN or
\* LINE_USER_ID no yf.download call is ever made and no send_messages call
\* is begun, and when the invocation is over it has raised the ValueError
\* of LineMessagingNotifier.__init__, market closed or not.
C16_MissingCredentialFailsFast ==
    (~env.token \/ ~env.user)
      => /\ dl.seen = << >>
         /\ sm = IdleCall
         /\ pc = "done" => result = Raised("ValueError")

\* C17: whenever the caller's deadline falls d seconds into the waiting of
\* a stage, the stage has not slept past it: a _download_with_retry or
\* send_messages call that has waited d seconds stands cancelled and has
\* waited no longer.
C17_WaitsEndAtDeadline ==
    \A d \in 1..MaxDeadline :
      /\ dl.slept >= d => (dl.slept = d /\ dl.st = "cancelled")
      /\ sm.slept >= d => (sm.slept = d /\ sm.st = "cancelled")

-----------------------------------------------------------------------------
(* Properties of the S3 methods: invariants of SpecS3 *)

S3Call == s3.call

UploadedKeys ==
    {S3Call.boto[i].key :
        i \in {j \in 1..Len(S3Call.boto) :
                 /\ S3Call.boto[j].api = "upload_file"
                 /\ S3Call.boto[j].outcome = "ok"}}

SignedKeys ==
    {S3Call.boto[i].key :
        i \in {j \in 1..Len(S3Call.boto) :
                 S3Call.boto[j].api = "generate_presigned_url"}}

\* C18: a call of upload_and_get_url that its signature accepts first
\* uploads under the key charts/YYYY/MM/DD/hint built from `now`; if the
\* upload fails in any way the call raises S3StorageError and signs
\* nothing; otherwise it signs that same key, and raises S3StorageError if
\* the signing fails or returns the signed URL of that key if it succeeds.
C18_UrlOfUploadedKeyOrStorageError ==
    (S3Call.op = "upload_and_get_url" /\ ~S3Call.expires_in.given)
      => LET key == build_s3_key(S3Call.filename_hint, S3Call.now)
             up == S3Call.boto[1]
         IN  /\ Len(S3Call.boto) >= 1
             /\ up.api = "upload_file"
             /\ up.key = key
             /\ key.filename = S3Call.filename_hint
             /\ S3Call.error \in {"", "S3StorageError"}
             /\ up.outcome # "ok"
                  => /\ S3Call.error = "S3StorageError"
                     /\ SignedKeys = {}
                     /\ S3Call.url = NoS3Url
             /\ up.outcome = "ok"
                  => /\ SignedKeys = {key}
                     /\ Len(S3Call.boto) = 2
                     /\ IF S3Call.boto[2].outcome = "ok"
                        THEN /\ S3Call.error = ""
                             /\ S3Call.url.signed
                             /\ S3Call.url.key = key
                             /\ UploadedKeys = {key}
                        ELSE /\ S3Call.error = "S3StorageError"
                             /\ S3Call.url = NoS3Url

C18_Witness ==
    /\ S3Call.op = "upload_and_get_url"
    /\ S3Call.error = ""
    /\ S3Call.url.signed
    /\ S3Call.url.key = build_s3_key(CHART_FILENAME, S3Call.now)
    /\ S3Call.url.key.month = << 0, 1 >>
    /\ \E o \in s3.objects : o.key = S3Call.url.key

RECURSIVE DecimalValue(_)
DecimalValue(ds) ==
    IF ds = << >> THEN 0
    ELSE 10 * DecimalValue(SubSeq(ds, 1, Len(ds) - 1)) + ds[Len(ds)]

IsDecimal(ds, width, n) ==
    /\ Len(ds) = width
    /\ \A i \in 1..width : ds[i] \in 0..9
    /\ DecimalValue(ds) = n

\* C21: the key under which upload_and_get_url uploads is
\* charts/YYYY/MM/DD/filename_hint: the year of `now` in four digits, its
\* month and its day in two digits each, zero-padded, and the hint itself;
\* the time of day of `now` plays no part.
C21_KeyIsDatePartitioned ==
    (S3Call.op = "upload_and_get_url" /\ ~S3Call.expires_in.given)
      => /\ Len(S3Call.boto) >= 1
         /\ S3Call.boto[1].api = "upload_file"
         /\ LET key == S3Call.boto[1].key
            IN  /\ key.prefix = "charts"
                /\ IsDecimal(key.year, 4, S3Call.now.year)
                /\ IsDecimal(key.month, 2, S3Call.now.month)
                /\ IsDecimal(key.day, 2, S3Call.now.day)
                /\ key.filename = S3Call.filename_hint
                /\ key = build_s3_key(S3Call.filename_hint,
                                      [S3Call.now EXCEPT !.hour = 0])

C21_Witness ==
    /\ S3Call.op = "upload_and_get_url"
    /\ S3Call.now = [year |-> 2026, month |-> 1, day |-> 12, hour |-> 10]
    /\ S3Call.boto # << >>
    /\ S3Call.boto[1].key =
         [prefix |-> "charts", year |-> << 2, 0, 2, 6 >>,
          month |-> << 0, 1 >>, day |-> << 1, 2 >>,
          filename |-> "vt_chart.png"]

\* C19: a call of upload_and_get_url, with or without an expiry, either
\* raises S3StorageError or returns a URL signed for the expiry the caller
\* gave, and for 3600 seconds when the caller gave none.
C19_SignedForCallersExpiry ==
    S3Call.op = "upload_and_get_url"
      => /\ S3Call.error \in {"", "S3StorageError"}
         /\ S3Call.error = ""
              => /\ S3Call.url.signed
                 /\ S3Call.url.expires_in =
                      IF S3Call.expires_in.given THEN S3Call.expires_in.n
                      ELSE 3600

\* C20: no object lies in the bucket with the public-read ACL, and every
\* URL an uploading method returned is a signed GET URL with an expiry for
\* the key it uploaded.
C20_NoPublicUrl ==
    /\ \A o \in s3.objects : o.acl # "public-read"
    /\ (S3Call.op \in {"upload_and_get_url", "S3Uploader.upload_file"}
          /\ S3Call.error = "")
         => /\ S3Call.url.signed
            /\ S3Call.url.method = "get_object"
            /\ S3Call.url.expires_in > 0
            /\ S3Call.url.key \in UploadedKeys

-----------------------------------------------------------------------------
(* Properties of the metric functions: invariants of SpecMetrics *)

\* the days of the series that have a close
ValidDays == {i \in 1..Len(mc.close) : mc.close[i] # NaN}

\* the k-th most recent valid close
RecentValid(k) ==
    mc.close[CHOOSE i \in ValidDays :
               Cardinality({j \in ValidDays : j >= i}) = k]

OldestValid == RecentValid(Cardinality(ValidDays))

Abs(x) == IF x < 0 THEN -x ELSE x

\* h hundredths of a percent is (to - from) / from * 100 rounded to 2 places
IsChange(h, from, to) == 2 * Abs(h * from - (to - from) * 10000) <= from

\* C23: on a series with at least 2 valid closes _calculate_daily_change
\* returns the change from the second most recent valid close to the most
\* recent one, in percent rounded to 2 places, wherever the missing
\* observations lie.
C23_DailyChangeOfLastTwoValid ==
    (mc.daily.done /\ Cardinality(ValidDays) >= 2)
      => /\ mc.daily.raised = ""
         /\ IsChange(mc.daily.value, RecentValid(2), RecentValid(1))

C23_Witness ==
    /\ mc.close = << 99, NaN, 95, NaN >>
    /\ mc.daily = ReturnedValue(-404)

\* C24: on a series with at least 2 valid closes _calculate_weekly_change
\* returns the change to the most recent valid close from the 5th most
\* recent valid close when there are 5, and from the oldest valid close
\* otherwise; on 100, 98, 99, 97, 95, 93 the reference is 98 and the
\* result -5.10.
C24_WeeklyChangeReference ==
    (mc.weekly.done /\ Cardinality(ValidDays) >= 2)
      => /\ mc.weekly.raised = ""
         /\ IsChange(mc.weekly.value,
                     IF Cardinality(ValidDays) >= 5 THEN RecentValid(5)
                     ELSE OldestValid,
                     RecentValid(1))
         /\ mc.close = << 100, 98, 99, 97, 95, 93 >>
              => (RecentValid(5) = 98 /\ mc.weekly.value = -510)

C24_Witness ==
    /\ mc.close = << 100, 98, 99, 97, 95, 93 >>
    /\ mc.weekly = ReturnedValue(-510)
    /\ mc.daily = ReturnedValue(-211)

\* C25: on a series with fewer than 2 valid closes (empty, all missing, or
\* one valid close) _calculate_daily_change and _calculate_weekly_change
\* return 0.0 and do not raise.
C25_ZeroBelowTwoValid ==
    Cardinality(ValidDays) < 2
      => /\ mc.daily.done => mc.daily = ReturnedValue(0)
         /\ mc.weekly.done => mc.weekly = ReturnedValue(0)

C25_Witness ==
    /\ mc.close = << NaN, 95, NaN >>
    /\ mc.daily = ReturnedValue(0)
    /\ mc.weekly = ReturnedValue(0)

-----------------------------------------------------------------------------
(* Properties of send_messages: invariants of SpecSend *)

Posts == Len(sm.outcomes)

\* a status in 400..499 other than 429
IsClientError(o) == 400 <= o /\ o <= 499 /\ o # 429

\* status 429, a 5xx status, or a network-level failure
IsRetryable(o) == o = 429 \/ (500 <= o /\ o <= 599) \/ o = NetErr

\* C2: an attempt that receives a status in 400..499 other than 429 is the
\* call's last: the call has failed with that status's error, no wait
\* follows it, and when it is the first attempt the call made exactly one
\* POST and never waited.
C2_ClientErrorFailsAtOnce ==
    \A i \in 1..Posts :
      IsClientError(sm.outcomes[i]) =>
        /\ i = Posts
        /\ Len(sm.hdrs) = i
        /\ sm.st = "failed"
        /\ sm.error = "Exception"
        /\ sm.errStatus = sm.outcomes[i]
        /\ sm.waits = i - 1
        /\ i = 1 => (sm.waits = 0 /\ sm.slept = 0)

C2_Witness ==
    /\ sm.outcomes = << 404 >>
    /\ sm.st = "failed"
    /\ sm.error = "Exception"
    /\ sm.waits = 0

\* C3: while every attempt so far ended in 429, 5xx or a network failure,
\* the call has not succeeded, each wait lasted retry_delay, a wait follows
\* every attempt but the max_retries-th, and the call is over exactly when
\* max_retries POSTs were made: failed with the error of the last attempt.
C3_RetriesExhausted ==
    (Posts > 0 /\ \A i \in 1..Posts : IsRetryable(sm.outcomes[i])) =>
      /\ Posts <= max_retries
      /\ Len(sm.hdrs) = Posts
      /\ sm.st \in {"wait", "sending", "failed"}
      /\ sm.slept = sm.waits * retry_delay
      /\ sm.st = "wait" => (sm.waits = Posts - 1 /\ Posts < max_retries)
      /\ sm.st = "sending" => (sm.waits = Posts /\ Posts < max_retries)
      /\ sm.st = "failed" <=> Posts = max_retries
      /\ sm.st = "failed" =>
           /\ sm.waits = max_retries - 1
           /\ sm.errStatus = Last(sm.outcomes)
           /\ sm.error = IF Last(sm.outcomes) = NetErr
                         THEN "RequestException"
                         ELSE "LineMessagingRetryableError"

C3_Witness ==
    /\ sm.outcomes = << 429, NetErr, 500 >>
    /\ sm.st = "failed"
    /\ sm.error = "LineMessagingRetryableError"
    /\ sm.waits = 2
    /\ sm.slept = 2 * retry_delay

\* C4: when k retryable attempts (1 <= k < max_retries) are followed by an
\* attempt that receives 200, the call has returned success after exactly
\* k + 1 POSTs and exactly k waits of retry_delay.
C4_SuccessAfterRetries ==
    \A k \in 1..(max_retries - 1) :
      ( /\ Posts = k + 1
        /\ \A i \in 1..k : IsRetryable(sm.outcomes[i])
        /\ sm.outcomes[k + 1] = 200 ) =>
          /\ sm.st = "success"
          /\ sm.error = "none"
          /\ Len(sm.hdrs) = k + 1
          /\ sm.waits = k
          /\ sm.slept = k * retry_delay

C4_Witness ==
    /\ sm.outcomes = << 429, 200 >>
    /\ sm.st = "success"
    /\ sm.waits = 1

HasInvalidImage(messages) ==
    \E i \in 1..Len(messages) : InvalidImage(messages[i])

\* C5: a call whose list holds an image message without an https:// URL is,
\* once validated, failed with ValueError, and has made no POST and no wait
\* and left nothing in the push API's log, whatever else the list holds.
C5_NonHttpsImageRejected ==
    (HasInvalidImage(sm.messages) /\ sm.st # "validating") =>
      /\ sm.st = "failed"
      /\ sm.error = "ValueError"
      /\ sm.outcomes = << >>
      /\ sm.hdrs = << >>
      /\ sm.waits = 0
      /\ sm.slept = 0
      /\ \A e \in postLog : e.messages # sm.messages

C5_Witness ==
    /\ sm.messages = << TextMessage(<< 5 >>), ImageMessage(Url("http", 1)) >>
    /\ sm.st = "failed"
    /\ sm.error = "ValueError"

\* C6: every POST of one call carries the same X-Line-Retry-Key: the
\* caller's retry_key when that is a non-empty string, otherwise the key
\* resolved before the first attempt.
C6_SameKeyEveryAttempt ==
    \A i \in 1..Len(sm.hdrs) :
      /\ sm.hdrs[i] = sm.hdrs[1]
      /\ Truthy(sm.retry_key) => sm.hdrs[i] = sm.retry_key.s
      /\ ~Truthy(sm.retry_key) => sm.hdrs[i] = sm.resolved_retry_key

C6_Witness ==
    /\ Len(sm.hdrs) = max_retries
    /\ sm.retry_key = None
    /\ sm.hdrs[max_retries] = sm.hdrs[1]

IsOther2xx(o) == 200 < o /\ o <= 299

\* C22: a send_messages call has returned success only if its last POST
\* received status 200; a call whose last POST received another 2xx status
\* has not succeeded: it waits, is about to post again, or has failed.
C22_SuccessOnlyOn200 ==
    /\ sm.st = "success" => (Posts >= 1 /\ Last(sm.outcomes) = 200)
    /\ (Posts >= 1 /\ IsOther2xx(Last(sm.outcomes)))
         => sm.st \in {"wait", "sending", "failed"}

C22_Witness ==
    /\ sm.outcomes = << 201, 201, 201 >>
    /\ sm.st = "failed"
    /\ sm.error = "LineMessagingRetryableError"

\* C28: a POST of send_messages is followed by a retry wait only if it
\* received status 429, a 5xx status or a network-level failure; after any
\* other non-200 response (201, a 3xx) no wait follows.
C28_RetryOnlyNamedStatuses ==
    \A i \in 1..Posts :
      (i < Posts \/ sm.st = "wait") => IsRetryable(sm.outcomes[i])


-----------------------------------------------------------------------------
(* Properties of one send_messages call: properties of SpecSendOnce *)

CallShape ==
    /\ sm.st \in {"idle", "validating", "sending", "wait", "success", "failed"}
    /\ Posts <= max_retries
    /\ Len(sm.hdrs) = Posts
    /\ sm.st \in {"idle", "validating"} => (Posts = 0 /\ sm.waits = 0)
    /\ sm.st = "sending" => (sm.waits = Posts /\ Posts < max_retries)
    /\ sm.st = "wait"
         => /\ Posts >= 1
            /\ Posts < max_retries
            /\ sm.waits = Posts - 1
            /\ Last(sm.outcomes) # 200
            /\ ~IsClientError(Last(sm.outcomes))
    /\ sm.st = "success" => (Posts >= 1 /\ sm.waits = Posts - 1)
    /\ sm.st = "failed"
         => IF Posts = 0 THEN sm.error = "ValueError" /\ sm.waits = 0
            ELSE /\ sm.waits = Posts - 1
                 /\ IsClientError(Last(sm.outcomes)) \/ Posts = max_retries

CallStep ==
    /\ sm.st = "validating" => sm'.st \in {"sending", "failed"}
    /\ sm.st = "sending"
         => /\ sm'.st \in {"success", "wait", "failed"}
            /\ Len(sm'.outcomes) = Posts + 1
            /\ sm'.waits = sm.waits
    /\ sm.st = "wait"
         => /\ sm'.st = "sending"
            /\ sm'.outcomes = sm.outcomes
            /\ sm'.waits = sm.waits + 1
    /\ CallOver(sm) => sm' = IdleCall

=============================================================================
